---- MODULE Spec2Model ----
(***************************************************************************)
(* Collapsing regions of egui: the persisted collapsing state (window and  *)
(* widget shape), the openness animation, the height-measuring body        *)
(* renderer and the CollapsingHeader widget built on them.                 *)
(*                                                                         *)
(* Sources: crates/egui/src/containers/collapsing_state.rs and             *)
(*          crates/egui/src/containers/collapsing_header.rs                *)
(*                                                                         *)
(* Numbers.  openness is an f32 in [0,1]; it is modelled as k / AnimMax    *)
(* with k in 0..AnimMax, so k = 0 is 0.0 and k = AnimMax is 1.0.  Heights  *)
(* are naturals.  A height that results from a multiplication by openness  *)
(* (the clip height, the height reported to the layout) is kept multiplied *)
(* by AnimMax, so that it stays an integer: Scaled(h) is the height h in   *)
(* that unit.                                                              *)
(***************************************************************************)
EXTENDS Integers, FiniteSets

VARIABLES
    data,                   \* ctx.data: the persisted store, by (id, shape)
    anim,                   \* the animation manager: per id, value and target
    everything_is_visible,  \* Memory::everything_is_visible()
    new_event,              \* the caller's Option<WidgetDisplayEvent> variable
    cur,                    \* the collapsing state the caller holds: None or Some
    header,                 \* the HeaderResponse the caller holds: None or Some
    res                     \* what the last operation did and returned

vars == <<data, anim, everything_is_visible, new_event, cur, header, res>>

---------------------------------------------------------------------------
(* Bounds *)

\* openness takes the values 0/AnimMax .. AnimMax/AnimMax
AnimMax == 3

\* the body's measured height is one of 8, 16, .. 8 * MaxHeightSteps
MaxHeightSteps == 2

---------------------------------------------------------------------------
(* Values *)

Ids == {"header"}

Shapes == {"window", "widget"}

Heights == {8 * k : k \in 1..MaxHeightSteps}

\* Option<T>: None is the empty set, Some(x) the singleton
None == {}

Some(x) == {x}

Unwrap(o) == CHOOSE x \in o : TRUE

OptHeights == {None} \cup {Some(h) : h \in Heights}

Scaled(h) == h * AnimMax

Min(a, b) == IF a <= b THEN a ELSE b

Max(a, b) == IF a >= b THEN a ELSE b

\* pub(crate) struct WindowStoreState { open, hidden, open_height }
WindowStoreState == [open : BOOLEAN, hidden : BOOLEAN, open_height : OptHeights]

\* pub(crate) struct WidgetStoreState { open, open_height }
WidgetStoreState == [open : BOOLEAN, open_height : OptHeights]

StoreState(shape) == IF shape = "window" THEN WindowStoreState ELSE WidgetStoreState

\* pub enum WidgetDisplayEvent
WidgetDisplayEvent == {"Expand", "Collapse", "ToggleCollapse"}

\* the first-frame placeholder of the opening animation
PlaceholderHeight == 10

---------------------------------------------------------------------------
(* The persisted store (IdTypeMap): one slot per (id, type of the record) *)

get_persisted(d, id, shape) == d[id][shape]

insert_persisted(d, id, shape, state) == [d EXCEPT ![id][shape] = Some(state)]

data_remove(d, id, shape) == [d EXCEPT ![id][shape] = None]

---------------------------------------------------------------------------
(* The animation manager: Context::animate_bool *)

NoAnim == [absent |-> TRUE]

Settled(target) == IF target THEN AnimMax ELSE 0

\* the value animate_bool(id, target) returns
animate_bool(a, id, target) ==
    IF a[id] = NoAnim THEN Settled(target) ELSE a[id].value

\* the animation manager after animate_bool(id, target)
animate_bool_anim(a, id, target) ==
    [a EXCEPT ![id] = [value |-> animate_bool(a, id, target), target |-> target]]

\* animate_bool asks for another frame while the value is moving
animation_in_progress(value) == 0 < value /\ value < AnimMax

\* one animation after dt of time: the value moves toward its target
Advance(an, dt) ==
    IF an = NoAnim THEN an
    ELSE [an EXCEPT !.value = IF an.target THEN Min(AnimMax, an.value + dt)
                                           ELSE Max(0, an.value - dt)]

\* emath::remap_clamp(openness, 0.0..=1.0, 0.0..=full_height), times AnimMax
remap_clamp(openness, full_height) ==
    IF openness <= 0 THEN 0
    ELSE IF AnimMax <= openness THEN Scaled(full_height)
    ELSE openness * full_height

---------------------------------------------------------------------------
(* WindowCollapsingState / WidgetCollapsingState { id, state }             *)
(* A collapsing state is [shape, id, state]; the shape stands for the Rust *)
(* type, and state is a WindowStoreState or a WidgetStoreState.            *)
(* A context is [data, anim, everything_is_visible, repaint]: repaint is   *)
(* whether request_repaint() was called since the operation began.         *)

CollapsingStates ==
    {[shape |-> s, id |-> i, state |-> st] :
        s \in {"window"}, i \in Ids, st \in WindowStoreState}
    \cup
    {[shape |-> s, id |-> i, state |-> st] :
        s \in {"widget"}, i \in Ids, st \in WidgetStoreState}

request_repaint(ctx) == [ctx EXCEPT !.repaint = TRUE]

\* a load whose fallback is the closed default
WindowCollapsingState_load_closed(ctx, id, default_open) ==
    LET got == get_persisted(ctx.data, id, "window")
    IN  IF got # None
        THEN [shape |-> "window", id |-> id, state |-> Unwrap(got)]
        ELSE [shape |-> "window", id |-> id,
              state |-> [open |-> FALSE, hidden |-> FALSE, open_height |-> None]]

WindowCollapsingState_load(ctx, id, default_open) ==
    LET got == get_persisted(ctx.data, id, "window")
    IN  IF got # None
        THEN [shape |-> "window", id |-> id, state |-> Unwrap(got)]
        ELSE [shape |-> "window", id |-> id,
              state |-> [open |-> default_open, hidden |-> FALSE,
                         open_height |-> None]]

\* a load that lets default_open decide although a record is persisted
WidgetCollapsingState_load_default(ctx, id, default_open) ==
    LET got == get_persisted(ctx.data, id, "widget")
    IN  IF got # None
        THEN [shape |-> "widget", id |-> id,
              state |-> [Unwrap(got) EXCEPT !.open = default_open]]
        ELSE [shape |-> "widget", id |-> id,
              state |-> [open |-> default_open, open_height |-> None]]

WidgetCollapsingState_load(ctx, id, default_open) ==
    LET got == get_persisted(ctx.data, id, "widget")
    IN  IF got # None
        THEN [shape |-> "widget", id |-> id, state |-> Unwrap(got)]
        ELSE [shape |-> "widget", id |-> id,
              state |-> [open |-> default_open, open_height |-> None]]

load(shape, ctx, id, default_open) ==
    IF shape = "window" THEN WindowCollapsingState_load(ctx, id, default_open)
    ELSE WidgetCollapsingState_load(ctx, id, default_open)

\* a load that leaves a closed default record behind when it finds none
load_ctx_inserts_default(shape, ctx, id) ==
    IF get_persisted(ctx.data, id, shape) # None THEN ctx
    ELSE [ctx EXCEPT !.data =
            insert_persisted(ctx.data, id, shape,
                IF shape = "window"
                THEN [open |-> FALSE, hidden |-> FALSE, open_height |-> None]
                ELSE [open |-> FALSE, open_height |-> None])]

\* the context after load: get_persisted reads the slot and inserts nothing
load_ctx(shape, ctx, id) == ctx

WindowCollapsingState_store(coll, ctx) ==
    [ctx EXCEPT !.data = insert_persisted(ctx.data, coll.id, "window", coll.state)]

WidgetCollapsingState_store(coll, ctx) ==
    [ctx EXCEPT !.data = insert_persisted(ctx.data, coll.id, "widget", coll.state)]

store(coll, ctx) ==
    IF coll.shape = "window" THEN WindowCollapsingState_store(coll, ctx)
    ELSE WidgetCollapsingState_store(coll, ctx)

\* a remove that discards the window record of every identity
WindowCollapsingState_remove_all(coll, ctx) ==
    [ctx EXCEPT !.data = [i \in DOMAIN ctx.data |->
                            data_remove(ctx.data, i, "window")[i]]]

WindowCollapsingState_remove(coll, ctx) ==
    [ctx EXCEPT !.data = data_remove(ctx.data, coll.id, "window")]

\* a remove that names the other record type
WidgetCollapsingState_remove_window(coll, ctx) ==
    [ctx EXCEPT !.data = data_remove(ctx.data, coll.id, "window")]

WidgetCollapsingState_remove(coll, ctx) ==
    [ctx EXCEPT !.data = data_remove(ctx.data, coll.id, "widget")]

remove(coll, ctx) ==
    IF coll.shape = "window" THEN WindowCollapsingState_remove(coll, ctx)
    ELSE WidgetCollapsingState_remove(coll, ctx)

is_open(coll) == coll.state.open

\* a set_open that starts the height measurement afresh
set_open_resets_height(coll, open) ==
    [coll EXCEPT !.state.open = open, !.state.open_height = None]

set_open(coll, open) == [coll EXCEPT !.state.open = open]

open_height(coll) == coll.state.open_height

set_open_height(coll, h) == [coll EXCEPT !.state.open_height = h]

is_hidden(coll) == coll.state.hidden

set_hidden(coll, hidden) == [coll EXCEPT !.state.hidden = hidden]

toggle_hidden(coll) == [coll EXCEPT !.state.hidden = ~coll.state.hidden]

\* a toggle that opens whatever the state was
toggle_open_opens(coll) == set_open(coll, TRUE)

\* a toggle that also forgets the measured height
toggle_open_forgets_height(coll) ==
    set_open_height(set_open(coll, ~is_open(coll)), None)

\* toggle_open: the state after it, and the context after it
toggle_open(coll) == set_open(coll, ~is_open(coll))

\* a toggle that asks for no repaint
toggle_open_ctx_quiet(ctx) == ctx

toggle_open_ctx(ctx) == request_repaint(ctx)

\* an openness that does not look at the override
openness_animated(coll, ctx) ==
    animate_bool(ctx.anim, coll.id, is_open(coll))

\* openness: the value, and the context after the call
openness(coll, ctx) ==
    IF ctx.everything_is_visible THEN AnimMax
    ELSE animate_bool(ctx.anim, coll.id, is_open(coll))

\* an openness that animates toward the negated state
openness_ctx_inverted(coll, ctx) ==
    IF ctx.everything_is_visible THEN ctx
    ELSE [ctx EXCEPT
            !.anim = animate_bool_anim(ctx.anim, coll.id, ~is_open(coll)),
            !.repaint = ctx.repaint
                \/ animation_in_progress(animate_bool(ctx.anim, coll.id, is_open(coll)))]

openness_ctx(coll, ctx) ==
    IF ctx.everything_is_visible THEN ctx
    ELSE [ctx EXCEPT
            !.anim = animate_bool_anim(ctx.anim, coll.id, is_open(coll)),
            !.repaint = ctx.repaint
                \/ animation_in_progress(animate_bool(ctx.anim, coll.id, is_open(coll)))]

---------------------------------------------------------------------------
(* CommonCollapse *)

\* a toggle button that stores the state it toggled
show_button_indented_stores(coll, ctx, clicked) ==
    LET coll1 == IF clicked THEN toggle_open(coll) ELSE coll
        ctx1  == IF clicked THEN store(coll1, toggle_open_ctx(ctx)) ELSE ctx
    IN  [coll |-> coll1,
         ctx |-> openness_ctx(coll1, ctx1),
         openness |-> openness(coll1, ctx1),
         response |-> [clicked |-> clicked]]

\* show_button_indented / show_default_button_with_size: toggle when the
\* button is clicked, then read the openness for the icon
show_button_indented(coll, ctx, clicked) ==
    LET coll1 == IF clicked THEN toggle_open(coll) ELSE coll
        ctx1  == IF clicked THEN toggle_open_ctx(ctx) ELSE ctx
    IN  [coll |-> coll1,
         ctx |-> openness_ctx(coll1, ctx1),
         openness |-> openness(coll1, ctx1),
         response |-> [clicked |-> clicked]]

\* a clip height that is remapped from the stored height in every case
max_height_remapped(coll, o) ==
    remap_clamp(o, IF open_height(coll) = None THEN 0
                   ELSE Unwrap(open_height(coll)))

\* the clip height of a mid-animation frame (times AnimMax)
max_height(coll, o) ==
    IF is_open(coll) /\ open_height(coll) = None
    THEN Scaled(PlaceholderHeight)
    ELSE remap_clamp(o, IF open_height(coll) = None THEN 0
                        ELSE Unwrap(open_height(coll)))

\* show_body_unindented(component, ui, add_body), where add_body lays out a
\* body of height h.  calls counts the invocations of add_body; clip is the
\* clip height and reported the height the layout is told, both times AnimMax.
\* The three branches, each with the context after the call of openness:

\* a closed branch that records the placeholder as the height of the body
body_closed_records_height(coll, ctx, o) ==
    LET coll1 == set_open_height(coll, Some(PlaceholderHeight))
    IN  [coll |-> coll1, ctx |-> store(coll1, ctx), openness |-> o,
         ret |-> "None", calls |-> 0, clip |-> None,
         measured |-> None, reported |-> None]

\* a closed branch that forgets to store
body_closed_forgets_store(coll, ctx, o) ==
    [coll |-> coll, ctx |-> ctx, openness |-> o,
     ret |-> "None", calls |-> 0, clip |-> None,
     measured |-> None, reported |-> None]

\* openness <= 0.0
body_closed(coll, ctx, o) ==
    [coll |-> coll, ctx |-> store(coll, ctx), openness |-> o,
     ret |-> "None", calls |-> 0, clip |-> None,
     measured |-> None, reported |-> None]

\* a mid-animation branch that clips to the height measured in this frame
body_animating_current(coll, ctx, o, h) ==
    LET coll1 == set_open_height(coll, Some(h))
        clip  == max_height(coll1, o)
    IN  [coll |-> coll1, ctx |-> store(coll1, ctx), openness |-> o,
         ret |-> "Some", calls |-> 1, clip |-> Some(clip),
         measured |-> Some(h), reported |-> Some(Min(Scaled(h), clip))]

\* a mid-animation branch that reports the height of the body as measured
body_animating_unclamped(coll, ctx, o, h) ==
    LET clip  == max_height(coll, o)
        coll1 == set_open_height(coll, Some(h))
    IN  [coll |-> coll1, ctx |-> store(coll1, ctx), openness |-> o,
         ret |-> "Some", calls |-> 1, clip |-> Some(clip),
         measured |-> Some(h), reported |-> Some(Scaled(h))]

\* 0.0 < openness < 1.0
body_animating(coll, ctx, o, h) ==
    LET clip  == max_height(coll, o)
        coll1 == set_open_height(coll, Some(h))
    IN  [coll |-> coll1, ctx |-> store(coll1, ctx), openness |-> o,
         ret |-> "Some", calls |-> 1, clip |-> Some(clip),
         measured |-> Some(h), reported |-> Some(Min(Scaled(h), clip))]

\* a fully open branch that stores before it writes the measured height
body_open_stores_first(coll, ctx, o, h) ==
    [coll |-> set_open_height(coll, Some(h)), ctx |-> store(coll, ctx),
     openness |-> o, ret |-> "Some", calls |-> 1, clip |-> None,
     measured |-> Some(h), reported |-> Some(Scaled(h))]

\* 1.0 <= openness
body_open(coll, ctx, o, h) ==
    LET coll1 == set_open_height(coll, Some(h))
    IN  [coll |-> coll1, ctx |-> store(coll1, ctx), openness |-> o,
         ret |-> "Some", calls |-> 1, clip |-> None,
         measured |-> Some(h), reported |-> Some(Scaled(h))]

\* a branch test that takes 0.0 for an animating value
show_body_unindented_strict(coll, ctx, h) ==
    LET o    == openness(coll, ctx)
        ctx1 == openness_ctx(coll, ctx)
    IN  IF o < 0 THEN body_closed(coll, ctx1, o)
        ELSE IF o < AnimMax THEN body_animating(coll, ctx1, o, h)
        ELSE body_open(coll, ctx1, o, h)

show_body_unindented(coll, ctx, h) ==
    LET o    == openness(coll, ctx)
        ctx1 == openness_ctx(coll, ctx)
    IN  IF o <= 0 THEN body_closed(coll, ctx1, o)
        ELSE IF o < AnimMax THEN body_animating(coll, ctx1, o, h)
        ELSE body_open(coll, ctx1, o, h)

\* show_body_indented: the same, with the body inside ui.indent
show_body_indented(coll, ctx, h) == show_body_unindented(coll, ctx, h)

show_body(indented, coll, ctx, h) ==
    IF indented THEN show_body_indented(coll, ctx, h)
    ELSE show_body_unindented(coll, ctx, h)

---------------------------------------------------------------------------
(* CollapsingHeader *)

\* CollapsingHeader::new(text) and the builder methods: self is
\* [id_source, default_open, open, display_event]
CollapsingHeaders ==
    [id_source : Ids, default_open : BOOLEAN,
     open : {None} \cup {Some(b) : b \in BOOLEAN},
     display_event : {None} \cup {Some(e) : e \in WidgetDisplayEvent}]

\* a take that leaves the command where it was
take_left_copy(option) == option

\* display(new_event): self.display_event = new_event.take().  take is the
\* value taken out of the caller's Option, take_left what the Option holds
\* afterwards.
take(option) == option

take_left(option) == None

\* the match on display_event in begin
apply_display_event(coll, display_event) ==
    IF display_event = Some("Expand") THEN set_open(coll, TRUE)
    ELSE IF display_event = Some("Collapse") THEN set_open(coll, FALSE)
    ELSE IF display_event = Some("ToggleCollapse") THEN set_open(coll, ~is_open(coll))
    ELSE coll

\* a chain that goes on to the open override after a display command
begin_toggles_after_event(self, state, clicked) ==
    IF self.open # None THEN Unwrap(self.open) # is_open(state)
    ELSE self.display_event = None /\ clicked

\* a chain that goes on to the click when the override agrees with the state
begin_toggles_click_too(self, state, clicked) ==
    IF self.display_event # None THEN FALSE
    ELSE IF self.open # None /\ Unwrap(self.open) # is_open(state) THEN TRUE
    ELSE clicked

\* the if / else if chain of begin: whether it calls toggle_open (and
\* mark_changed), given the state after the display command
begin_toggles(self, state, clicked) ==
    IF self.display_event # None THEN FALSE
    ELSE IF self.open # None THEN Unwrap(self.open) # is_open(state)
    ELSE clicked

\* a begin that marks the response changed for a display command too
begin_marks_commands(self, ctx, main_dir, clicked) ==
    IF main_dir # "vertical" THEN
        [panicked |-> TRUE, ctx |-> ctx]
    ELSE
    LET loaded == WidgetCollapsingState_load(ctx, self.id_source, self.default_open)
        request == self.display_event # None
        state1 == apply_display_event(loaded, self.display_event)
        toggles == begin_toggles(self, state1, clicked)
        state2 == IF toggles THEN toggle_open(state1) ELSE state1
        ctx0 == load_ctx("widget", ctx, self.id_source)
        ctx1 == IF request THEN request_repaint(ctx0)
                ELSE IF toggles THEN toggle_open_ctx(ctx0)
                ELSE ctx0
    IN  [panicked |-> FALSE,
         loaded |-> loaded,
         header_response |-> [clicked |-> clicked,
                              changed |-> toggles \/ state1 # loaded],
         state |-> state2,
         openness |-> openness(state2, ctx1),
         ctx |-> openness_ctx(state2, ctx1)]

\* begin(self, ui): Prepared { header_response, state, openness }, with the
\* context after it; loaded is the state as load returned it.  main_dir is
\* ui.layout().main_dir(), and clicked is header_response.clicked().
begin(self, ctx, main_dir, clicked) ==
    IF main_dir # "vertical" THEN
        [panicked |-> TRUE, ctx |-> ctx]
    ELSE
    LET loaded == WidgetCollapsingState_load(ctx, self.id_source, self.default_open)
        request == self.display_event # None
        state1 == apply_display_event(loaded, self.display_event)
        toggles == begin_toggles(self, state1, clicked)
        state2 == IF toggles THEN toggle_open(state1) ELSE state1
        ctx0 == load_ctx("widget", ctx, self.id_source)
        ctx1 == IF request THEN request_repaint(ctx0)
                ELSE IF toggles THEN toggle_open_ctx(ctx0)
                ELSE ctx0
    IN  [panicked |-> FALSE,
         loaded |-> loaded,
         header_response |-> [clicked |-> clicked, changed |-> toggles],
         state |-> state2,
         openness |-> openness(state2, ctx1),
         ctx |-> openness_ctx(state2, ctx1)]

\* ui.vertical(|ui| ..): the child ui lays out top-down
ui_vertical(main_dir) == "vertical"

\* show_dyn(self, ui, add_body, indented): CollapsingResponse
\* { header_response, body_response, body_returned, openness }.
\* prepared is what begin returned and body what show_body_* returned, each
\* bound once.
show_dyn(self, ctx, main_dir, clicked, h, indented) ==
    Unwrap({
        IF prepared.panicked THEN prepared
        ELSE Unwrap({
            [panicked |-> FALSE,
             loaded |-> prepared.loaded,
             state |-> body.coll,
             ctx |-> body.ctx,
             header_response |-> prepared.header_response,
             body_response |-> IF body.ret = "Some" THEN Some("response") ELSE None,
             body_returned |-> IF body.ret = "Some" THEN Some("inner") ELSE None,
             openness |-> prepared.openness,
             body |-> body] :
            body \in {show_body(indented, prepared.state, prepared.ctx, h)} }) :
        prepared \in {begin(self, ctx, ui_vertical(main_dir), clicked)} })

\* CollapsingResponse::fully_closed / fully_open
fully_closed(o) == o <= 0

fully_open(o) == o >= AnimMax

---------------------------------------------------------------------------
(* State machine *)

\* the context an operation starts from, and the context it leaves
Ctx == [data |-> data, anim |-> anim,
        everything_is_visible |-> everything_is_visible, repaint |-> FALSE]

Commit(ctx) ==
    /\ data' = ctx.data
    /\ anim' = ctx.anim
    /\ UNCHANGED everything_is_visible

\* res records the operation that just returned: its name, the collapsing
\* state before (pre) and after (post) it, the state before the operation
\* preceding it when both are toggle_open (pre2), the persisted record a
\* remove found (was), and what it returned and asked of the context.  Res0
\* is the record while no response is pending.
Res0 ==
    [op |-> "idle", pre |-> None, pre2 |-> None, post |-> None, was |-> None,
     self |-> None, clicked |-> FALSE, default_open |-> FALSE,
     panicked |-> FALSE, ret |-> "-", calls |-> 0,
     body_response |-> None, body_returned |-> None,
     openness |-> -1, body_openness |-> -1,
     clip |-> None, measured |-> None, reported |-> None,
     repaint |-> FALSE, changed |-> FALSE]

Idle == res.op = "idle"

Init ==
    /\ data = [i \in Ids |-> [s \in Shapes |-> None]]
    /\ anim = [i \in Ids |-> NoAnim]
    /\ everything_is_visible = FALSE
    /\ new_event = None
    /\ cur = None
    /\ header = None
    /\ res = Res0

\* the caller has looked at what the operation returned and goes on
Return ==
    /\ ~Idle
    /\ res' = Res0
    /\ UNCHANGED <<data, anim, everything_is_visible, new_event, cur, header>>

\* the host loop starts the next frame, dt after the last one.  A
\* HeaderResponse borrows the frame's Ui, so none is held across frames.
BeginFrame(dt) ==
    /\ Idle
    /\ header = None
    /\ anim' = [i \in Ids |-> Advance(anim[i], dt)]
    /\ res' = [Res0 EXCEPT !.op = "begin_frame"]
    /\ UNCHANGED <<data, everything_is_visible, new_event, cur, header>>

\* Memory::set_everything_is_visible
SetEverythingIsVisible(value) ==
    /\ Idle
    /\ everything_is_visible # value
    /\ everything_is_visible' = value
    /\ res' = [Res0 EXCEPT !.op = "set_everything_is_visible"]
    /\ UNCHANGED <<data, anim, new_event, cur, header>>

\* the application writes a display command into its variable
WriteEvent(event) ==
    /\ Idle
    /\ new_event # Some(event)
    /\ new_event' = Some(event)
    /\ res' = [Res0 EXCEPT !.op = "write_event"]
    /\ UNCHANGED <<data, anim, everything_is_visible, cur, header>>

\* WindowCollapsingState::load / WidgetCollapsingState::load; a state or a
\* header response held before is dropped
Load(shape, id, default_open) ==
    /\ Idle
    /\ \E coll \in {load(shape, Ctx, id, default_open)},
          ctx \in {load_ctx(shape, Ctx, id)} :
        /\ cur' = Some(coll)
        /\ header' = None
        /\ Commit(ctx)
        /\ res' = [Res0 EXCEPT !.op = "load", !.post = Some(coll),
                               !.default_open = default_open,
                               !.repaint = ctx.repaint]
    /\ UNCHANGED new_event

SetOpen(open) ==
    /\ Idle
    /\ cur # None
    /\ \E coll \in {set_open(Unwrap(cur), open)} :
        /\ cur' = Some(coll)
        /\ res' = [Res0 EXCEPT !.op = "set_open", !.pre = cur, !.post = Some(coll)]
    /\ UNCHANGED <<data, anim, everything_is_visible, new_event, header>>

\* toggle_open; it may follow a toggle_open at once
ToggleOpen ==
    /\ Idle \/ res.op = "toggle_open"
    /\ cur # None
    /\ \E coll \in {toggle_open(Unwrap(cur))}, ctx \in {toggle_open_ctx(Ctx)} :
        /\ cur' = Some(coll)
        /\ Commit(ctx)
        /\ res' = [Res0 EXCEPT !.op = "toggle_open", !.pre = cur,
                      !.pre2 = IF res.op = "toggle_open" THEN res.pre ELSE None,
                      !.post = Some(coll), !.repaint = ctx.repaint]
    /\ UNCHANGED <<new_event, header>>

SetHidden(hidden) ==
    /\ Idle
    /\ cur # None
    /\ Unwrap(cur).shape = "window"
    /\ \E coll \in {set_hidden(Unwrap(cur), hidden)} :
        /\ cur' = Some(coll)
        /\ res' = [Res0 EXCEPT !.op = "set_hidden", !.pre = cur, !.post = Some(coll)]
    /\ UNCHANGED <<data, anim, everything_is_visible, new_event, header>>

ToggleHidden ==
    /\ Idle
    /\ cur # None
    /\ Unwrap(cur).shape = "window"
    /\ \E coll \in {toggle_hidden(Unwrap(cur))} :
        /\ cur' = Some(coll)
        /\ res' = [Res0 EXCEPT !.op = "toggle_hidden", !.pre = cur, !.post = Some(coll)]
    /\ UNCHANGED <<data, anim, everything_is_visible, new_event, header>>

Store ==
    /\ Idle
    /\ cur # None
    /\ \E ctx \in {store(Unwrap(cur), Ctx)} :
        /\ Commit(ctx)
        /\ res' = [Res0 EXCEPT !.op = "store", !.pre = cur, !.post = cur,
                               !.repaint = ctx.repaint]
    /\ UNCHANGED <<new_event, cur, header>>

Remove ==
    /\ Idle
    /\ cur # None
    /\ \E ctx \in {remove(Unwrap(cur), Ctx)} :
        /\ Commit(ctx)
        /\ res' = [Res0 EXCEPT !.op = "remove", !.pre = cur, !.post = cur,
                               !.was = get_persisted(data, Unwrap(cur).id,
                                                     Unwrap(cur).shape),
                               !.repaint = ctx.repaint]
    /\ UNCHANGED <<new_event, cur, header>>

\* *state.open_height() = value: the trait hands out the field itself
WriteOpenHeight(value) ==
    /\ Idle
    /\ cur # None
    /\ open_height(Unwrap(cur)) # value
    /\ \E coll \in {set_open_height(Unwrap(cur), value)} :
        /\ cur' = Some(coll)
        /\ res' = [Res0 EXCEPT !.op = "open_height", !.pre = cur, !.post = Some(coll)]
    /\ UNCHANGED <<data, anim, everything_is_visible, new_event, header>>

\* the caller lets go of the state or the header response it holds
Drop ==
    /\ Idle
    /\ cur # None \/ header # None
    /\ cur' = None
    /\ header' = None
    /\ res' = [Res0 EXCEPT !.op = "drop",
                           !.pre = IF cur # None THEN cur
                                   ELSE Some(Unwrap(header).state)]
    /\ UNCHANGED <<data, anim, everything_is_visible, new_event>>

\* CommonCollapse::show_toggle_button / show_default_button_indented
ShowToggleButton(clicked) ==
    /\ Idle
    /\ cur # None
    /\ \E b \in {show_button_indented(Unwrap(cur), Ctx, clicked)} :
        /\ cur' = Some(b.coll)
        /\ Commit(b.ctx)
        /\ res' = [Res0 EXCEPT !.op = "show_toggle_button", !.pre = cur,
                      !.post = Some(b.coll), !.clicked = clicked,
                      !.openness = b.openness, !.repaint = b.ctx.repaint]
    /\ UNCHANGED <<new_event, header>>

\* CommonCollapse::show_body_indented / show_body_unindented on the state held
ShowBody(indented, h) ==
    /\ Idle
    /\ cur # None
    /\ \E b \in {show_body(indented, Unwrap(cur), Ctx, h)} :
        /\ cur' = Some(b.coll)
        /\ Commit(b.ctx)
        /\ res' = [Res0 EXCEPT !.op = "show_body", !.pre = cur,
                      !.post = Some(b.coll),
                      !.ret = b.ret, !.calls = b.calls,
                      !.openness = b.openness, !.body_openness = b.openness,
                      !.clip = b.clip, !.measured = b.measured,
                      !.reported = b.reported, !.repaint = b.ctx.repaint]
    /\ UNCHANGED <<new_event, header>>

\* CollapsingState::show_header: the state moves into the HeaderResponse
ShowHeader(clicked) ==
    /\ Idle
    /\ cur # None
    /\ \E b \in {show_button_indented(Unwrap(cur), Ctx, clicked)} :
        /\ header' = Some([state |-> b.coll, toggle_button_response |-> b.response])
        /\ cur' = None
        /\ Commit(b.ctx)
        /\ res' = [Res0 EXCEPT !.op = "show_header", !.pre = cur,
                      !.post = Some(b.coll), !.clicked = clicked,
                      !.openness = b.openness, !.repaint = b.ctx.repaint]
    /\ UNCHANGED new_event

\* HeaderResponse::body / body_unindented: consumes the header response
HeaderBody(indented, h) ==
    /\ Idle
    /\ header # None
    /\ \E hr \in header :
       \E b \in {show_body(indented, hr.state, Ctx, h)} :
        /\ header' = None
        /\ Commit(b.ctx)
        /\ res' = [Res0 EXCEPT !.op = "body", !.pre = Some(hr.state),
                      !.post = Some(b.coll),
                      !.clicked = hr.toggle_button_response.clicked,
                      !.ret = b.ret, !.calls = b.calls,
                      !.openness = b.openness, !.body_openness = b.openness,
                      !.clip = b.clip, !.measured = b.measured,
                      !.reported = b.reported, !.repaint = b.ctx.repaint]
    /\ UNCHANGED <<new_event, cur>>

\* CollapsingHeader::new(..).default_open(..).open(..)[.display(&mut new_event)]
\*     .show(ui, add_body) / .show_unindented(ui, add_body)
\* in a ui whose layout runs in main_dir, with the header clicked or not and
\* a body of height h.  The identity belongs to this widget: the caller holds
\* no collapsing state of its own for it.
CollapsingHeaderShow(id, default_open, open, use_display, main_dir, clicked, indented, h) ==
    /\ Idle
    /\ cur = None
    /\ header = None
    /\ \E self \in {[id_source |-> id, default_open |-> default_open, open |-> open,
                    display_event |-> IF use_display THEN take(new_event) ELSE None]} :
       \E r \in {show_dyn(self, Ctx, main_dir, clicked, h, indented)} :
        /\ new_event' = IF use_display THEN take_left(new_event) ELSE new_event
        /\ Commit(r.ctx)
        /\ res' = IF r.panicked
                  THEN [Res0 EXCEPT !.op = "show", !.self = Some(self), !.panicked = TRUE]
                  ELSE [Res0 EXCEPT !.op = "show", !.self = Some(self),
                           !.pre = Some(r.loaded), !.post = Some(r.state),
                           !.clicked = clicked,
                           !.ret = r.body.ret, !.calls = r.body.calls,
                           !.body_response = r.body_response,
                           !.body_returned = r.body_returned,
                           !.openness = r.openness,
                           !.body_openness = r.body.openness,
                           !.clip = r.body.clip, !.measured = r.body.measured,
                           !.reported = r.body.reported,
                           !.repaint = r.ctx.repaint,
                           !.changed = r.header_response.changed]
    /\ UNCHANGED <<cur, header>>

Options(S) == {None} \cup {Some(x) : x \in S}

Frame ==
    \/ Return
    \/ \E dt \in 1..AnimMax : BeginFrame(dt)
    \/ \E value \in BOOLEAN : SetEverythingIsVisible(value)

HeaderWidget ==
    \/ \E event \in WidgetDisplayEvent : WriteEvent(event)
    \/ \E id \in Ids, default_open \in BOOLEAN, open \in Options(BOOLEAN),
          use_display \in BOOLEAN, main_dir \in {"vertical", "horizontal"},
          clicked \in BOOLEAN, indented \in BOOLEAN, h \in Heights :
            CollapsingHeaderShow(id, default_open, open, use_display, main_dir,
                                 clicked, indented, h)

StateApi ==
    \/ \E shape \in Shapes, id \in Ids, default_open \in BOOLEAN :
            Load(shape, id, default_open)
    \/ \E open \in BOOLEAN : SetOpen(open)
    \/ ToggleOpen
    \/ \E hidden \in BOOLEAN : SetHidden(hidden)
    \/ ToggleHidden
    \/ Store
    \/ Remove
    \/ Drop
    \/ \E clicked \in BOOLEAN : ShowToggleButton(clicked)
    \/ \E indented \in BOOLEAN, h \in Heights : ShowBody(indented, h)
    \/ \E clicked \in BOOLEAN : ShowHeader(clicked)
    \/ \E indented \in BOOLEAN, h \in Heights : HeaderBody(indented, h)

\* the CollapsingHeader widget, frame after frame
NextHeader == Frame \/ HeaderWidget

SpecHeader == Init /\ [][NextHeader]_vars

\* the collapsing state used directly, frame after frame
NextState == Frame \/ StateApi

SpecState == Init /\ [][NextState]_vars

\* the two ways of showing a header with its body: CollapsingHeader::show and
\* CollapsingState::show_header(..).body(..)
HeaderApi ==
    \/ \E shape \in Shapes, id \in Ids, default_open \in BOOLEAN :
            Load(shape, id, default_open)
    \/ Drop
    \/ \E clicked \in BOOLEAN : ShowHeader(clicked)
    \/ \E indented \in BOOLEAN, h \in Heights : HeaderBody(indented, h)

NextShow == Frame \/ HeaderWidget \/ HeaderApi

SpecShow == Init /\ [][NextShow]_vars

\* the persisted records of two identities: states are loaded, changed in
\* memory, stored and removed; nothing is shown, so no animation starts
StoreIds == {"header", "other"}

InitStore ==
    /\ data = [i \in StoreIds |-> [s \in Shapes |-> None]]
    /\ anim = [i \in StoreIds |-> NoAnim]
    /\ everything_is_visible = FALSE
    /\ new_event = None
    /\ cur = None
    /\ header = None
    /\ res = Res0

StoreApi ==
    \/ \E shape \in Shapes, id \in StoreIds, default_open \in BOOLEAN :
            Load(shape, id, default_open)
    \/ \E open \in BOOLEAN : SetOpen(open)
    \/ \E value \in OptHeights : WriteOpenHeight(value)
    \/ Store
    \/ Remove

NextStore == Return \/ StoreApi

SpecStore == InitStore /\ [][NextStore]_vars

\* The host loop of an application that shows one CollapsingHeader, with no
\* open override and no display command, in every frame: the frame begins dt
\* after the last one, and the header is shown, clicked or not, with a body
\* of height h.  res keeps the response of the last frame, and with it
\* whether that frame asked for a repaint.
HostFrame(dt, default_open, clicked, h) ==
    /\ res.op \in {"idle", "frame"}
    /\ cur = None
    /\ header = None
    /\ \E self \in {[id_source |-> "header", default_open |-> default_open,
                      open |-> None, display_event |-> None]} :
       \E ctx \in {[Ctx EXCEPT !.anim = [i \in Ids |-> Advance(anim[i], dt)]]} :
       \E r \in {show_dyn(self, ctx, "vertical", clicked, h, TRUE)} :
        /\ Commit(r.ctx)
        /\ res' = [Res0 EXCEPT !.op = "frame", !.self = Some(self),
                      !.pre = Some(r.loaded), !.post = Some(r.state),
                      !.clicked = clicked,
                      !.ret = r.body.ret, !.calls = r.body.calls,
                      !.body_response = r.body_response,
                      !.body_returned = r.body_returned,
                      !.openness = r.openness,
                      !.body_openness = r.body.openness,
                      !.clip = r.body.clip, !.measured = r.body.measured,
                      !.reported = r.body.reported,
                      !.repaint = r.ctx.repaint,
                      !.changed = r.header_response.changed]
    /\ UNCHANGED <<new_event, cur, header>>

\* the override may be set before the first frame
InitAnimate ==
    /\ data = [i \in Ids |-> [s \in Shapes |-> None]]
    /\ anim = [i \in Ids |-> NoAnim]
    /\ everything_is_visible \in BOOLEAN
    /\ new_event = None
    /\ cur = None
    /\ header = None
    /\ res = Res0

NextAnimate ==
    \E dt \in 1..AnimMax, default_open \in BOOLEAN, clicked \in BOOLEAN,
       h \in Heights : HostFrame(dt, default_open, clicked, h)

\* a frame that was asked for: the last frame requested a repaint
RepaintFrame == res.repaint /\ NextAnimate

\* frames come with input at any time, and a requested repaint is served
SpecAnimate == InitAnimate /\ [][NextAnimate]_vars /\ WF_vars(RepaintFrame)

\* the record of the widget shape under everything that reads or writes it:
\* the CollapsingHeader widget with its display commands, and the state
\* loaded, set, toggled, shown, stored and removed by the application
RecordApi ==
    \/ \E id \in Ids, default_open \in BOOLEAN : Load("widget", id, default_open)
    \/ \E open \in BOOLEAN : SetOpen(open)
    \/ ToggleOpen
    \/ Store
    \/ Remove
    \/ Drop
    \/ \E indented \in BOOLEAN, h \in Heights : ShowBody(indented, h)

NextRecord == Frame \/ HeaderWidget \/ RecordApi

SpecRecord == Init /\ [][NextRecord]_vars

Next ==
    \/ Frame
    \/ HeaderWidget
    \/ StateApi
    \/ \E value \in OptHeights : WriteOpenHeight(value)

Spec == Init /\ [][Next]_vars

---------------------------------------------------------------------------
(* Properties *)

\* the operations that end in show_body_unindented / show_body_indented
BodyOps == {"show_body", "body", "show"}

Returned(ops) == res.op \in ops /\ ~res.panicked

Pre == Unwrap(res.pre)

Post == Unwrap(res.post)

Persisted(coll) == get_persisted(data, coll.id, coll.shape)

Other(shape) == IF shape = "window" THEN "widget" ELSE "window"

\* C1: when show_body_unindented / show_body_indented finds openness <= 0.0
\* it does not call the body, returns None, leaves the state it was given
\* (open_height included) as it is, and the persisted record is that state.
C1_ClosedBodyStoresAndSkips ==
    (Returned({"show_body", "body"}) /\ res.body_openness <= 0) =>
        /\ res.calls = 0
        /\ res.ret = "None"
        /\ Post = Pre
        /\ open_height(Post) = open_height(Pre)
        /\ Persisted(Post) = Some(Post.state)

\* C1 witness: the toggle button was clicked in this frame, the body found
\* openness 0 and the toggled record was persisted over a closed one
C1_Witness ==
    /\ res.op = "body"
    /\ res.clicked
    /\ res.body_openness = 0
    /\ is_open(Post)
    /\ open_height(Post) # None
    /\ Persisted(Post) = Some(Post.state)

\* C2: when show_body_unindented finds openness >= 1.0 it calls the body
\* once, without a clip height, open_height becomes the height measured in
\* this call, the persisted record is the state with that height, and it
\* returns Some.
C2_OpenBodyMeasuresAndStores ==
    (Returned({"show_body", "body"}) /\ res.body_openness >= AnimMax) =>
        /\ res.calls = 1
        /\ res.ret = "Some"
        /\ res.clip = None
        /\ res.reported = Some(Scaled(Unwrap(res.measured)))
        /\ open_height(Post) = res.measured
        /\ Post = set_open_height(Pre, res.measured)
        /\ Persisted(Post) = Some(Post.state)

\* C2 witness: a fully open body whose height differs from the one before
C2_Witness ==
    /\ res.op = "show_body"
    /\ res.body_openness = AnimMax
    /\ ~everything_is_visible
    /\ open_height(Pre) = Some(8)
    /\ res.measured = Some(16)
    /\ Persisted(Post) = Some(Post.state)

\* C3: load for an identity with no persisted record of the requested shape
\* returns open = default_open and open_height = None, and hidden = FALSE for
\* the window shape.
C3_LoadDefault ==
    (res.op = "load" /\ Persisted(Post) = None) =>
        /\ is_open(Post) = res.default_open
        /\ open_height(Post) = None
        /\ (Post.shape = "window" => ~is_hidden(Post))

\* C3 witness: a window state loaded with default_open = TRUE while only a
\* closed widget record is persisted for the identity
C3_Witness ==
    /\ res.op = "load"
    /\ Post.shape = "window"
    /\ res.default_open
    /\ Persisted(Post) = None
    /\ get_persisted(data, Post.id, "widget") # None
    /\ ~Unwrap(get_persisted(data, Post.id, "widget")).open
    /\ is_open(Post)

Self == Unwrap(res.self)

C5_AsClaimed ==
    (Returned({"show"}) /\ Self.display_event = None /\ Self.open # None) =>
        /\ is_open(Post) = Unwrap(Self.open)
        /\ res.changed = (is_open(Pre) # Unwrap(Self.open))
        /\ res.repaint = (is_open(Pre) # Unwrap(Self.open))

\* C5, amended: with no display command and the override Some(b), the state
\* after the frame is b; the response is marked changed exactly when the
\* loaded state differed from b; a repaint is requested when it differed, and
\* otherwise exactly when the openness animation is in progress.
C5_OverrideDecides ==
    (Returned({"show"}) /\ Self.display_event = None /\ Self.open # None) =>
        /\ is_open(Post) = Unwrap(Self.open)
        /\ res.changed = (is_open(Pre) # Unwrap(Self.open))
        /\ res.repaint = (\/ is_open(Pre) # Unwrap(Self.open)
                          \/ animation_in_progress(res.openness))

\* C5 witness: the override closes an open record although the header was
\* clicked
C5_Witness ==
    /\ Returned({"show"})
    /\ Self.display_event = None
    /\ Self.open = Some(FALSE)
    /\ res.clicked
    /\ is_open(Pre)
    /\ ~is_open(Post)
    /\ res.changed
    /\ res.repaint

\* C6 as claimed: open(Some(b)) makes the header's state b in the frame it is
\* shown, whatever default_open, the display command and the click.
C6_AsClaimed ==
    (Returned({"show"}) /\ Self.open # None) =>
        is_open(Post) = Unwrap(Self.open)

\* C7: the body result is None exactly when the widget is fully closed in the
\* frame: in a CollapsingResponse body_response is None iff body_returned is
\* None iff fully_closed(), in the tuple of body / body_unindented the third
\* component is None iff the openness is 0, and the body was called once iff
\* the result is Some (and never more than once).
C7_NoneIffClosed ==
    /\ Returned({"show"}) =>
        /\ (res.body_response = None) = (res.body_returned = None)
        /\ (res.body_returned = None) = fully_closed(res.openness)
        /\ (res.calls = 1) = (res.body_returned # None)
        /\ res.calls \in {0, 1}
    /\ Returned({"body"}) =>
        /\ (res.ret = "None") = fully_closed(res.body_openness)
        /\ (res.calls = 1) = (res.ret = "Some")
        /\ res.calls \in {0, 1}

\* C7 witness: a frame in which the header was clicked open while the
\* openness was still 0, so the body was not shown
C7_Witness ==
    /\ Returned({"show"})
    /\ res.changed
    /\ is_open(Post)
    /\ res.openness = 0
    /\ res.body_returned = None
    /\ res.calls = 0

\* C8: toggle_open applied twice gives back the state it started from: the
\* open flag, open_height and hidden.
C8_ToggleTwice ==
    (res.op = "toggle_open" /\ res.pre2 # None) =>
        /\ is_open(Post) = is_open(Unwrap(res.pre2))
        /\ open_height(Post) = open_height(Unwrap(res.pre2))
        /\ Post = Unwrap(res.pre2)

\* C8 witness: two toggles of a hidden window state with a measured height,
\* whose animation has not followed
C8_Witness ==
    /\ res.op = "toggle_open"
    /\ res.pre2 # None
    /\ Post.shape = "window"
    /\ is_hidden(Post)
    /\ open_height(Post) # None
    /\ is_open(Post) # is_open(Pre)
    /\ anim[Post.id] # NoAnim

\* the operations that read the openness
OpennessOps == {"show_toggle_button", "show_header", "show_body", "body"}

\* C9: while everything_is_visible is set, openness is 1.0 whatever the open
\* flag and the animation, and show_body takes the fully open branch.
C9_EverythingVisible ==
    (everything_is_visible /\ Returned(OpennessOps)) =>
        /\ res.openness = AnimMax
        /\ Returned({"show_body", "body"}) =>
            /\ res.calls = 1
            /\ res.ret = "Some"
            /\ res.clip = None
            /\ open_height(Post) = res.measured

\* C9 witness: the body of a closed record, whose animation rests at 0, is
\* shown in full
C9_Witness ==
    /\ everything_is_visible
    /\ res.op = "show_body"
    /\ ~is_open(Post)
    /\ anim[Post.id] = [value |-> 0, target |-> FALSE]
    /\ res.openness = AnimMax
    /\ res.calls = 1

\* the operations that store or remove the record of the state's shape
StoreOps == {"store", "remove", "show_body", "body"}

\* C10: a step that stores or removes the record of one shape leaves what
\* load returns for the other shape, under the same identity, as it was.
C10_ShapesApart ==
    [][res'.op \in StoreOps =>
        \A d \in BOOLEAN :
            LET coll == Unwrap(res'.post)
            IN  load(Other(coll.shape), [data |-> data'], coll.id, d)
                = load(Other(coll.shape), [data |-> data], coll.id, d)]_vars

\* C10 witness: the widget record was removed while a window record with a
\* measured height is persisted for the same identity
C10_Witness ==
    /\ res.op = "remove"
    /\ Post.shape = "widget"
    /\ Persisted(Post) = None
    /\ get_persisted(data, Post.id, "window") # None
    /\ Unwrap(get_persisted(data, Post.id, "window")).open_height # None

\* C11: store followed by load round-trips: right after store, load returns
\* the stored state (open, open_height and hidden) for every default_open;
\* and wherever a record of a shape is persisted for an identity, load
\* returns the same state for both values of default_open.
C11_StoreLoadRoundTrip ==
    /\ res.op = "store" =>
        \A d \in BOOLEAN :
            LET got == load(Post.shape, Ctx, Post.id, d)
            IN  /\ is_open(got) = is_open(Post)
                /\ open_height(got) = open_height(Post)
                /\ got = Post
    /\ \A s \in Shapes, i \in Ids :
        get_persisted(data, i, s) # None =>
            load(s, Ctx, i, TRUE) = load(s, Ctx, i, FALSE)

\* C11 witness: an open widget state with a measured height was stored over
\* a closed record
C11_Witness ==
    /\ res.op = "store"
    /\ Post.shape = "widget"
    /\ is_open(Post)
    /\ open_height(Post) = Some(16)
    /\ Persisted(Post) = Some(Post.state)
    /\ load("widget", Ctx, Post.id, FALSE) = Post

\* C12: a remove leaves no persisted record of the state's shape for its
\* identity, so that a load with any default_open d returns open = d and
\* open_height = None (and hidden = FALSE) whatever record was there, and it
\* leaves the records of every other identity as they were.
C12_RemoveForgets ==
    [][res'.op = "remove" =>
        LET coll == Unwrap(res'.post)
        IN  /\ get_persisted(data', coll.id, coll.shape) = None
            /\ \A d \in BOOLEAN :
                LET got == load(coll.shape, [data |-> data'], coll.id, d)
                IN  /\ is_open(got) = d
                    /\ open_height(got) = None
                    /\ (coll.shape = "window" => ~is_hidden(got))
            /\ \A i \in DOMAIN data \ {coll.id}, s \in Shapes :
                get_persisted(data', i, s) = get_persisted(data, i, s)]_vars

\* C12 witness: the window record of one identity, open with a measured
\* height, was removed while the other identity has a window record with a
\* height of its own
C12_Witness ==
    /\ res.op = "remove"
    /\ Post.shape = "window"
    /\ res.was # None
    /\ Unwrap(res.was).open
    /\ Unwrap(res.was).open_height = Some(16)
    /\ Persisted(Post) = None
    /\ \E i \in DOMAIN data \ {Post.id} :
        /\ get_persisted(data, i, "window") # None
        /\ Unwrap(get_persisted(data, i, "window")).open_height = Some(8)

\* C13 as claimed: every CollapsingHeader::show / show_unindented in a ui
\* whose layout's main direction is horizontal ends in the panic
\* "Horizontal collapsing is unimplemented" instead of a response.
C13_AsClaimed ==
    [][(\E id \in Ids, default_open \in BOOLEAN, open \in Options(BOOLEAN),
           use_display \in BOOLEAN, clicked \in BOOLEAN, indented \in BOOLEAN,
           h \in Heights :
            CollapsingHeaderShow(id, default_open, open, use_display,
                                 "horizontal", clicked, indented, h))
        => res'.panicked]_vars

\* a frame in which the open widget has openness 1.0 and its body is shown
\* unclipped, with the persisted open_height the height measured in it
OpenSettled ==
    /\ res.op = "frame"
    /\ is_open(Post)
    /\ res.openness = AnimMax
    /\ res.calls = 1
    /\ res.clip = None
    /\ Persisted(Post) # None
    /\ Unwrap(Persisted(Post)).open_height = res.measured

\* a frame in which the closed widget has openness 0.0 and no body is shown
ClosedSettled ==
    /\ res.op = "frame"
    /\ ~is_open(Post)
    /\ res.openness = 0
    /\ res.calls = 0
    /\ res.body_returned = None

\* from some time on no frame comes with a click on the header
NoFurtherInput == <>[][~res'.clicked]_vars

\* C14 as claimed: if the header is clicked at some time and from some time
\* on no more, while requested repaints are served, then from some frame on
\* the widget is settled: open with openness 1.0, or closed with openness 0.0.
C14_AsClaimed ==
    (<>(res.clicked) /\ NoFurtherInput) => <>[](OpenSettled \/ ClosedSettled)

\* C14, amended: the same while the everything-visible override is inactive.
C14_AnimationSettles ==
    ([](~everything_is_visible) /\ <>(res.clicked) /\ NoFurtherInput)
        => <>[](OpenSettled \/ ClosedSettled)

\* C14 witness: a frame without a click in which a widget that was toggled
\* open has arrived at openness 1.0 from a clipped frame, and the measured
\* height is persisted
C14_Witness ==
    /\ ~everything_is_visible
    /\ OpenSettled
    /\ ~res.clicked
    /\ ~res.repaint
    /\ open_height(Pre) = Some(8)
    /\ res.measured = Some(16)
    /\ anim["header"] = [value |-> AnimMax, target |-> TRUE]

\* C15: with the everything-visible override inactive, the openness of
\* every frame lies in [0, 1]; from one frame to the next it does not
\* decrease while the state stays open and does not increase while it stays
\* closed; and it moves in every such frame until it is exactly 1.0
\* (respectively 0.0), which bounds the number of frames by AnimMax, the
\* number of time steps of the animation.
C15_OpennessMonotone ==
    [][(~everything_is_visible /\ res'.op = "frame") =>
        /\ res'.openness \in 0..AnimMax
        /\ (res.op = "frame" /\ is_open(Post) /\ is_open(Post')) =>
            /\ res'.openness >= res.openness
            /\ res'.openness = AnimMax \/ res'.openness > res.openness
        /\ (res.op = "frame" /\ ~is_open(Post) /\ ~is_open(Post')) =>
            /\ res'.openness <= res.openness
            /\ res'.openness = 0 \/ res'.openness < res.openness]_vars

\* C15 witness: a frame without a click of a widget that was open before it,
\* with the openness on its way, short of 1.0 by one step
C15_Witness ==
    /\ ~everything_is_visible
    /\ res.op = "frame"
    /\ ~res.clicked
    /\ is_open(Pre)
    /\ is_open(Post)
    /\ res.openness = AnimMax - 1
    /\ res.repaint

\* a frame of show_body_unindented / show_body_indented with
\* 0.0 < openness < 1.0
MidAnimation ==
    /\ Returned({"show_body", "body"})
    /\ 0 < res.body_openness
    /\ res.body_openness < AnimMax

\* C16: in a mid-animation frame the clip height is the placeholder 10 when
\* the state is open and its open_height is None, and in every other case
\* openness times the stored open_height, with 0 for None (clip heights are
\* counted times AnimMax); so a closed state with open_height None is
\* clipped to 0.
C16_ClipHeight ==
    MidAnimation =>
        /\ res.clip # None
        /\ (is_open(Pre) /\ open_height(Pre) = None) =>
                res.clip = Some(PlaceholderHeight * AnimMax)
        /\ ~(is_open(Pre) /\ open_height(Pre) = None) =>
                res.clip = Some(res.body_openness *
                                (IF open_height(Pre) = None THEN 0
                                 ELSE Unwrap(open_height(Pre))))
        /\ (~is_open(Pre) /\ open_height(Pre) = None) => res.clip = Some(0)

\* C16 witness: the first frame of an opening animation, where the height
\* is not known yet and the placeholder is the clip height
C16_Witness ==
    /\ MidAnimation
    /\ is_open(Pre)
    /\ open_height(Pre) = None
    /\ res.clip = Some(Scaled(PlaceholderHeight))
    /\ res.calls = 1

\* C17: in a mid-animation frame the body is called exactly once, the
\* open_height of the state and of the persisted record is the height
\* measured in the frame, unclamped, and the height reported to the layout
\* is the smaller of the measured height and the clip height, so at most
\* the clip height.
C17_MeasuredStoredReportedClamped ==
    MidAnimation =>
        /\ res.calls = 1
        /\ res.ret = "Some"
        /\ res.measured # None
        /\ open_height(Post) = res.measured
        /\ Persisted(Post) = Some(Post.state)
        /\ res.reported =
            Some(IF Unwrap(res.measured) * AnimMax <= Unwrap(res.clip)
                 THEN Unwrap(res.measured) * AnimMax ELSE Unwrap(res.clip))
        /\ Unwrap(res.reported) <= Unwrap(res.clip)

\* C17 witness: a mid-animation frame whose body is higher than the clip
\* height: the full height is persisted and the clip height is reported
C17_Witness ==
    /\ MidAnimation
    /\ res.measured = Some(16)
    /\ Unwrap(res.clip) < Scaled(16)
    /\ res.reported = res.clip
    /\ Persisted(Post) # None
    /\ Unwrap(Persisted(Post)).open_height = Some(16)

\* the open_height of the persisted widget record in d, None without a record
PersistedHeight(d) ==
    IF get_persisted(d, "header", "widget") = None THEN None
    ELSE Unwrap(get_persisted(d, "header", "widget")).open_height

\* C18: the persisted open_height is the height measured in the last frame
\* that rendered the body, and a mid-animation frame clips by it: after a
\* frame that renders the body the persisted open_height is the height
\* measured in that frame, a frame that does not render the body leaves it
\* as it was, and the clip height of a mid-animation frame is computed from
\* the open_height persisted before the frame (the placeholder when that is
\* None and the state is open), not from the height the frame measures.
C18_OneFrameLag ==
    [][res'.op = "frame" =>
        LET before == PersistedHeight(data)
            after  == PersistedHeight(data')
            o      == res'.body_openness
        IN  /\ res'.calls = 1 =>
                /\ after = res'.measured
                /\ open_height(Unwrap(res'.post)) = res'.measured
            /\ res'.calls = 0 => after = before
            /\ (0 < o /\ o < AnimMax) =>
                /\ res'.calls = 1
                /\ res'.clip =
                    Some(IF is_open(Unwrap(res'.post)) /\ before = None
                         THEN PlaceholderHeight * AnimMax
                         ELSE o * (IF before = None THEN 0 ELSE Unwrap(before)))]_vars

\* C18 witness: a mid-animation frame of a body that has grown from 8 to 16:
\* the clip height comes from the 8 of the frame before, and 16 is persisted
\* for the next frame
C18_Witness ==
    /\ res.op = "frame"
    /\ 0 < res.body_openness
    /\ res.body_openness < AnimMax
    /\ open_height(Pre) = Some(8)
    /\ res.measured = Some(16)
    /\ res.clip = Some(res.body_openness * 8)
    /\ PersistedHeight(data) = Some(16)

\* C19: an open_height that is Some stays Some: in the persisted record
\* under every step but remove, and in the state held under every step on
\* it (toggle, set_open, display commands, show_body frames, store, remove).
\* A frame of a body of the height h already recorded leaves h in the state
\* and the record, rendered or not, and a mid-animation frame of a closed
\* state with open_height h is clipped to openness times h.
C19_HeightKept ==
    [][/\ (PersistedHeight(data) # None /\ res'.op # "remove") =>
            PersistedHeight(data') # None
       /\ (cur # None /\ cur' # None /\ res'.op # "load"
           /\ open_height(Unwrap(cur)) # None) =>
            open_height(Unwrap(cur')) # None
       /\ (res'.op \in BodyOps /\ open_height(Unwrap(res'.pre)) # None) =>
            /\ open_height(Unwrap(res'.post)) # None
            /\ (res'.calls = 0 \/ res'.measured = open_height(Unwrap(res'.pre))) =>
                /\ open_height(Unwrap(res'.post)) = open_height(Unwrap(res'.pre))
                /\ PersistedHeight(data') = open_height(Unwrap(res'.pre))
            /\ (0 < res'.body_openness /\ res'.body_openness < AnimMax
                /\ ~is_open(Unwrap(res'.post))) =>
                res'.clip = Some(res'.body_openness
                                 * Unwrap(open_height(Unwrap(res'.pre))))]_vars

\* C19 witness: a mid-animation frame of a CollapsingHeader that a Collapse
\* command closed, with a body of the height 16 recorded before: the height
\* stays 16 and the clip height is openness times 16
C19_Witness ==
    /\ Returned({"show"})
    /\ 0 < res.body_openness
    /\ res.body_openness < AnimMax
    /\ ~is_open(Post)
    /\ anim["header"].target = FALSE
    /\ open_height(Pre) = Some(16)
    /\ res.measured = Some(16)
    /\ res.clip = Some(res.body_openness * 16)
    /\ PersistedHeight(data) = Some(16)

C21_LoadIsPureRead ==
    [][res'.op = "load" =>
        LET coll == Unwrap(res'.post)
        IN  /\ data' = data
            /\ anim' = anim
            /\ ~res'.repaint
            /\ get_persisted(data, coll.id, coll.shape) = None =>
                /\ get_persisted(data', coll.id, coll.shape) = None
                /\ \A d2 \in BOOLEAN :
                    is_open(load(coll.shape, [data |-> data'], coll.id, d2)) = d2]_vars

\* C21 witness: a window state was loaded open by default, nothing is
\* persisted for it, and a load with the default closed returns closed
C21_Witness ==
    /\ res.op = "load"
    /\ Post.shape = "window"
    /\ res.default_open
    /\ is_open(Post)
    /\ Persisted(Post) = None
    /\ ~is_open(load("window", Ctx, Post.id, FALSE))

\* C22: set_open(b) makes the open flag of the state held b and changes
\* nothing else: open_height, hidden, the persisted store and the animations
\* stay as they were and no repaint is requested.  toggle_open negates the
\* flag and requests a repaint, and changes nothing else either.
C22_SetOpenAndToggle ==
    [][/\ \A open \in BOOLEAN :
            SetOpen(open) =>
                /\ is_open(Unwrap(cur')) = open
                /\ open_height(Unwrap(cur')) = open_height(Unwrap(cur))
                /\ Unwrap(cur') = [Unwrap(cur) EXCEPT !.state.open = open]
                /\ data' = data
                /\ anim' = anim
                /\ ~res'.repaint
       /\ ToggleOpen =>
                /\ is_open(Unwrap(cur')) = ~is_open(Unwrap(cur))
                /\ open_height(Unwrap(cur')) = open_height(Unwrap(cur))
                /\ Unwrap(cur') = [Unwrap(cur) EXCEPT !.state.open = ~is_open(Unwrap(cur))]
                /\ data' = data
                /\ anim' = anim
                /\ res'.repaint]_vars

\* C22 witness: set_open closed a hidden window state with a measured
\* height while the persisted record still says open
C22_Witness ==
    /\ res.op = "set_open"
    /\ Post.shape = "window"
    /\ is_open(Pre)
    /\ ~is_open(Post)
    /\ is_hidden(Post)
    /\ open_height(Post) = Some(16)
    /\ ~res.repaint
    /\ Persisted(Post) = Some(Pre.state)

\* C23: the persisted store changes only in a step that ends in show_body:
\* after every CollapsingHeader::show and every HeaderResponse::body /
\* body_unindented the persisted record is the state the frame ended with,
\* so its open flag is the logical state after the frame's command, override
\* and click, whichever branch the openness took; load, show_header and the
\* drop of a HeaderResponse or state leave the store as it was, so a toggle
\* by the button of show_header is not persisted if the body is not shown.
C23_StoredByBodyOnly ==
    [][/\ (res'.op \in {"show", "body"} /\ ~res'.panicked) =>
            LET post == Unwrap(res'.post)
            IN  /\ get_persisted(data', post.id, post.shape) = Some(post.state)
                /\ Unwrap(get_persisted(data', post.id, post.shape)).open
                    = is_open(post)
       /\ data' # data => res'.op \in {"show", "body"}
       /\ res'.op \in {"load", "show_header", "drop"} => data' = data]_vars

\* C23 witness: a HeaderResponse was dropped whose button had toggled the
\* state open, and the persisted record still says closed
C23_Witness ==
    /\ res.op = "drop"
    /\ is_open(Pre)
    /\ Persisted(Pre) # None
    /\ ~Unwrap(Persisted(Pre)).open
    /\ anim[Pre.id] # NoAnim
    /\ anim[Pre.id].target = TRUE

\* C24: a display command is consumed by the frame that applies it: a frame
\* that carries a command has taken it from the caller's variable and left
\* None there; the variable gets a command only when the application writes
\* one; and a frame built while the variable is None carries no command, so
\* that without open override and click it leaves the state as loaded.
C24_CommandConsumed ==
    [][/\ (res'.op = "show" /\ ~res'.panicked) =>
            LET self == Unwrap(res'.self)
            IN  /\ self.display_event # None =>
                    /\ self.display_event = new_event
                    /\ new_event' = None
                /\ new_event = None =>
                    /\ self.display_event = None
                    /\ (self.open = None /\ ~res'.clicked) =>
                        is_open(Unwrap(res'.post)) = is_open(Unwrap(res'.pre))
                /\ new_event' \in {None, new_event}
       /\ (new_event' # None /\ new_event' # new_event) =>
            res'.op = "write_event"]_vars

\* C24 witness: a frame applied ToggleCollapse, which opened the header, and
\* the caller's variable is None after it
C24_Witness ==
    /\ Returned({"show"})
    /\ Self.display_event = Some("ToggleCollapse")
    /\ ~is_open(Pre)
    /\ is_open(Post)
    /\ ~res.clicked
    /\ new_event = None

\* C25: the response of CollapsingHeader::show is marked changed exactly
\* when the frame carries no display command and either the open override
\* differs from the loaded state or, without an override, the header was
\* clicked; the state is flipped in each such frame; and a frame with a
\* display command is never marked changed, whatever it did to the state.
C25_ChangedMark ==
    Returned({"show"}) =>
        /\ res.changed =
            /\ Self.display_event = None
            /\ \/ Self.open # None /\ Unwrap(Self.open) # is_open(Pre)
               \/ Self.open = None /\ res.clicked
        /\ res.changed => is_open(Post) # is_open(Pre)
        /\ Self.display_event # None => ~res.changed

\* C25 witness: Expand opened a closed header in a frame in which the header
\* was clicked too and the override asked for open, and the response is not
\* marked changed
C25_Witness ==
    /\ Returned({"show"})
    /\ Self.display_event = Some("Expand")
    /\ Self.open = Some(TRUE)
    /\ res.clicked
    /\ ~is_open(Pre)
    /\ is_open(Post)
    /\ ~res.changed

====
